---------------------------- MODULE Spec2Model ----------------------------
(***************************************************************************)
(* Allocation / rebalancing engine of the Investimentos application        *)
(* (src/investimentos.py): calcular_alocacao, sugerir_rebalance,           *)
(* simulate_rebalance_assets and the class simulation of simulacao_page.   *)
(*                                                                         *)
(* Numbers.  The program computes on IEEE doubles; the model computes on   *)
(* exact rationals [num, den] in lowest terms, so that an equality of the  *)
(* model is an equality of the real-number results (the rounding of the    *)
(* doubles is not modelled).  Money is counted in whole units and target   *)
(* percents in whole percents; a unit stands for R$ 100 in the examples.   *)
(*                                                                         *)
(* Frames.  A pandas DataFrame is a sequence of rows, a row a record of    *)
(* its columns; adding a column extends every row by one field.            *)
(***************************************************************************)
EXTENDS Integers, Sequences, FiniteSets, TLC

VARIABLES
    portfolio,      \* the rows get_portfolio(username) returned
    df_port,        \* the frame of holdings, pd.DataFrame(portfolio)
    asset_classes,  \* the rows get_asset_classes(username) returned
    op,             \* the operation that ran last
    aporte,         \* the extra contribution given to that operation
    simular,        \* whether "Simular Aporte por Ativo" was pressed
    df_reb,         \* the rebalance frame the operation computed (<<>> when none)
    totals,         \* <<total_current, total_new>> of simulate_rebalance_assets
    df_merge,       \* the class rows of simulacao_page (<<>> when none)
    info,           \* the st.info message the page showed ("" when none)
    raised,         \* the exception the operation ended in ("" when none)
    tbl_users,          \* table users: rows [id, username, password_hash]
    tbl_portfolio,      \* table portfolio: rows [id, username, asset_name, ...]
    tbl_asset_classes,  \* table asset_classes: rows [id, username, class_name, target_value]
    tbl_favorites,      \* table favorites: rows [id, username, ticker, company_name]
    user_logs,          \* table user_logs, in insertion order
    sqlite_sequence,    \* the last AUTOINCREMENT id given in each table
    pending,            \* <<entry>> a committed operation has still to log, or <<>>
    fetched,            \* what fetch_stock_price returned per holding id in the last refresh
    ret,                \* what the last function call returned
    call,               \* the database function the step called: <<name, arguments>>
    logged_in,          \* st.session_state.logged_in
    session_username,   \* st.session_state.username ("" while not set)
    page,               \* the page function the last run of main called ("" when none)
    sair,               \* whether "Sair" was pressed in the last run of main
    db                  \* the database file's schema: per table, its columns and row ids

calcvars == <<portfolio, df_port, asset_classes, op, aporte, simular, df_reb,
              totals, df_merge, info, raised>>

storevars == <<tbl_users, tbl_portfolio, tbl_asset_classes, tbl_favorites,
               user_logs, sqlite_sequence, pending, fetched, ret, call>>

sessionvars == <<logged_in, session_username, page, sair>>

vars == <<calcvars, storevars, sessionvars, db>>

---------------------------------------------------------------------------
(* Bounds of the model *)

MaxHoldings == 2
MaxClasses == 2
MaxAporte == 2

(* SQL NULL / Python None in the nullable column portfolio.asset_class *)
NULL == "NULL"

(* The missing value pandas puts in the unmatched rows of a left merge; a  *)
(* cell that may be missing holds <<v>> or NaN.                            *)
NaN == <<>>

(* What a division by zero produces: numpy's nan/inf, a number that is no  *)
(* number.  It is a rational with denominator 0.                          *)
DivisionByZero == [num |-> 0, den |-> 0]

---------------------------------------------------------------------------
(* Exact rational arithmetic standing for Python's float arithmetic *)

Abs(x) == IF x < 0 THEN -x ELSE x

RECURSIVE GCD(_, _)
GCD(a, b) == IF b = 0 THEN a ELSE GCD(b, a % b)

Rat(n, d) ==
    LET s == IF d < 0 THEN -1 ELSE 1
        g == GCD(Abs(n), Abs(d))
    IN  [num |-> (s * n) \div g, den |-> (s * d) \div g]

R(x) == [num |-> x, den |-> 1]

Plus(a, b) ==
    IF a = DivisionByZero \/ b = DivisionByZero THEN DivisionByZero
    ELSE Rat(a.num * b.den + b.num * a.den, a.den * b.den)

Minus(a, b) ==
    IF a = DivisionByZero \/ b = DivisionByZero THEN DivisionByZero
    ELSE Rat(a.num * b.den - b.num * a.den, a.den * b.den)

Times(a, b) ==
    IF a = DivisionByZero \/ b = DivisionByZero THEN DivisionByZero
    ELSE Rat(a.num * b.num, a.den * b.den)

Divide(a, b) ==
    IF a = DivisionByZero \/ b = DivisionByZero \/ b.num = 0 THEN DivisionByZero
    ELSE Rat(a.num * b.den, a.den * b.num)

Less(a, b) == a.num * b.den < b.num * a.den

RECURSIVE SumRat(_)
SumRat(s) == IF s = <<>> THEN R(0) ELSE Plus(Head(s), SumRat(Tail(s)))

---------------------------------------------------------------------------
(* Frames *)

RECURSIVE SumSeq(_)
SumSeq(s) == IF s = <<>> THEN 0 ELSE Head(s) + SumSeq(Tail(s))

Column(df, c) == [i \in 1..Len(df) |-> df[i][c]]

AddColumn(df, c, col) == [i \in 1..Len(df) |-> (c :> col[i]) @@ df[i]]

---------------------------------------------------------------------------
(* Inputs *)

(* asset_class of a holding: NULL, the empty text, or a class name *)
HoldingClasses == {NULL, "", "RV"}

(* class_name of an asset class (add_asset_class refuses the empty name) *)
ClassNames == {"RV", "RF"}

(* target_percent and current_value of a holding; carteira_page's number  *)
(* inputs have no minimum, so negative numbers reach the store            *)
TargetPercents == {-10, 0, 30, 70}
CurrentValues == {-1, 0, 3, 7}

(* target_value (R$) of an asset class *)
TargetValues == {0, 5}

(* the extra contribution: st.number_input(min_value=0.0) *)
Aportes == 0..MaxAporte

SeqsUpTo(S, n) == UNION {[1..k -> S] : k \in 0..n}

(* rows as get_portfolio returns them: the id is the row's place *)
Holdings(classes, percents, values) ==
    {h \in SeqsUpTo([id : 1..MaxHoldings, asset_class : classes,
                     target_percent : percents, current_value : values],
                    MaxHoldings) :
        \A i \in 1..Len(h) : h[i].id = i}

ClassRows ==
    {c \in SeqsUpTo([id : 1..MaxClasses, class_name : ClassNames,
                     target_value : TargetValues], MaxClasses) :
        \A i \in 1..Len(c) : c[i].id = i}

---------------------------------------------------------------------------
(* The calculation functions *)

calcular_alocacao_carry(df_port_) ==
    LET carried == IF \A i \in 1..Len(df_port_) :
                         "aloc_atual_pct" \in DOMAIN df_port_[i]
                   THEN SumRat(Column(df_port_, "aloc_atual_pct"))
                   ELSE R(0)
        total == Plus(R(SumSeq(Column(df_port_, "current_value"))), carried)
        aloc == [i \in 1..Len(df_port_) |->
                    IF Less(R(0), total)
                    THEN Times(Divide(R(df_port_[i].current_value), total), R(100))
                    ELSE R(0)]
    IN  AddColumn(df_port_, "aloc_atual_pct", aloc)

calcular_alocacao_unguarded(df_port_) ==
    LET total == SumSeq(Column(df_port_, "current_value"))
        aloc == [i \in 1..Len(df_port_) |->
                    Times(Divide(R(df_port_[i].current_value), R(total)), R(100))]
    IN  AddColumn(df_port_, "aloc_atual_pct", aloc)

calcular_alocacao_nopercent(df_port_) ==
    LET total == SumSeq(Column(df_port_, "current_value"))
        aloc == [i \in 1..Len(df_port_) |->
                    IF total > 0
                    THEN Divide(R(df_port_[i].current_value), R(total))
                    ELSE R(0)]
    IN  AddColumn(df_port_, "aloc_atual_pct", aloc)

calcular_alocacao(df_port_) ==
    LET total == SumSeq(Column(df_port_, "current_value"))
        aloc == [i \in 1..Len(df_port_) |->
                    IF total > 0
                    THEN Times(Divide(R(df_port_[i].current_value), R(total)), R(100))
                    ELSE R(0)]
    IN  AddColumn(df_port_, "aloc_atual_pct", aloc)

sugerir_rebalance_flipped(df_port_) ==
    LET total == SumSeq(Column(df_port_, "current_value"))
        valor_alvo == [i \in 1..Len(df_port_) |->
                          Times(Divide(R(df_port_[i].target_percent), R(100)), R(total))]
        diff == [i \in 1..Len(df_port_) |->
                    Minus(R(df_port_[i].current_value), valor_alvo[i])]
    IN  AddColumn(AddColumn(df_port_, "valor_alvo", valor_alvo), "diff", diff)

sugerir_rebalance(df_port_) ==
    LET total == SumSeq(Column(df_port_, "current_value"))
        valor_alvo == [i \in 1..Len(df_port_) |->
                          Times(Divide(R(df_port_[i].target_percent), R(100)), R(total))]
        diff == [i \in 1..Len(df_port_) |->
                    Minus(valor_alvo[i], R(df_port_[i].current_value))]
    IN  AddColumn(AddColumn(df_port_, "valor_alvo", valor_alvo), "diff", diff)

(* returns <<portfolio_df, total_current, total_new>> *)
simulate_rebalance_assets_old_total(portfolio_df, extra_amount) ==
    LET total_current == SumSeq(Column(portfolio_df, "current_value"))
        total_new == total_current + extra_amount
        ideal_value == [i \in 1..Len(portfolio_df) |->
                           Times(Divide(R(portfolio_df[i].target_percent), R(100)),
                                 R(total_current))]
        aporte_ideal == [i \in 1..Len(portfolio_df) |->
                            Minus(ideal_value[i], R(portfolio_df[i].current_value))]
    IN  <<AddColumn(AddColumn(portfolio_df, "ideal_value", ideal_value),
                    "aporte_ideal", aporte_ideal),
          total_current, total_new>>

simulate_rebalance_assets_minus(portfolio_df, extra_amount) ==
    LET total_current == SumSeq(Column(portfolio_df, "current_value"))
        total_new == total_current - extra_amount
        ideal_value == [i \in 1..Len(portfolio_df) |->
                           Times(Divide(R(portfolio_df[i].target_percent), R(100)),
                                 R(total_new))]
        aporte_ideal == [i \in 1..Len(portfolio_df) |->
                            Minus(ideal_value[i], R(portfolio_df[i].current_value))]
    IN  <<AddColumn(AddColumn(portfolio_df, "ideal_value", ideal_value),
                    "aporte_ideal", aporte_ideal),
          total_current, total_new>>

simulate_rebalance_assets(portfolio_df, extra_amount) ==
    LET total_current == SumSeq(Column(portfolio_df, "current_value"))
        total_new == total_current + extra_amount
        ideal_value == [i \in 1..Len(portfolio_df) |->
                           Times(Divide(R(portfolio_df[i].target_percent), R(100)),
                                 R(total_new))]
        aporte_ideal == [i \in 1..Len(portfolio_df) |->
                            Minus(ideal_value[i], R(portfolio_df[i].current_value))]
    IN  <<AddColumn(AddColumn(portfolio_df, "ideal_value", ideal_value),
                    "aporte_ideal", aporte_ideal),
          total_current, total_new>>

---------------------------------------------------------------------------
(* The class simulation of simulacao_page *)

(* df_port.groupby("asset_class")["current_value"].sum(): one entry per   *)
(* class value of the frame, the rows whose class is missing dropped      *)
(* (groupby's dropna=True)                                                *)
groupby_asset_class(df_port_) ==
    LET keys == {df_port_[i].asset_class : i \in 1..Len(df_port_)} \ {NULL}
    IN  [k \in keys |->
            SumSeq(Column(SelectSeq(df_port_, LAMBDA r : r.asset_class = k),
                          "current_value"))]

(* pd.merge(df_class, df_port_group, how="left", left_on="class_name",    *)
(* right_on="asset_class"): the rows of df_class in their order, each     *)
(* with its group's cells, or missing cells when it has no group          *)
merge_left(df_class, df_port_group) ==
    [i \in 1..Len(df_class) |->
        IF df_class[i].class_name \in DOMAIN df_port_group
        THEN [asset_class |-> df_class[i].class_name,
              current_value |-> <<df_port_group[df_class[i].class_name]>>]
             @@ df_class[i]
        ELSE [asset_class |-> NULL, current_value |-> NaN] @@ df_class[i]]

fillna(cell, value) == IF cell = NaN THEN value ELSE cell[1]

simulacao_classes_inner(df_port_, asset_classes_) ==
    LET df_class == asset_classes_
        df_port_group == groupby_asset_class(df_port_)
        matched == SelectSeq(df_class,
                             LAMBDA c : c.class_name \in DOMAIN df_port_group)
        df_merge_ == merge_left(matched, df_port_group)
        filled == [i \in 1..Len(df_merge_) |->
                      [df_merge_[i] EXCEPT
                          !.current_value = fillna(df_merge_[i].current_value, 0)]]
        aporte_ideal == [i \in 1..Len(filled) |->
                            filled[i].target_value - filled[i].current_value]
    IN  AddColumn(filled, "aporte_ideal", aporte_ideal)

simulacao_classes(df_port_, asset_classes_) ==
    LET df_class == asset_classes_
        df_port_group == groupby_asset_class(df_port_)
        df_merge_ == merge_left(df_class, df_port_group)
        filled == [i \in 1..Len(df_merge_) |->
                      [df_merge_[i] EXCEPT
                          !.current_value = fillna(df_merge_[i].current_value, 0)]]
        aporte_ideal == [i \in 1..Len(filled) |->
                            filled[i].target_value - filled[i].current_value]
    IN  AddColumn(filled, "aporte_ideal", aporte_ideal)

---------------------------------------------------------------------------
(* Operations *)

Call_calcular_alocacao_saving ==
    /\ op' = "calcular_alocacao"
    /\ df_port' = calcular_alocacao(df_port)
    /\ tbl_portfolio' =
          {[r EXCEPT !.current_value = 0] : r \in tbl_portfolio}
    /\ df_reb' = <<>>
    /\ totals' = <<>>
    /\ df_merge' = <<>>
    /\ aporte' = 0
    /\ simular' = FALSE
    /\ info' = ""
    /\ raised' = ""
    /\ UNCHANGED <<portfolio, asset_classes, tbl_users, tbl_asset_classes,
                   tbl_favorites, user_logs, sqlite_sequence, pending, fetched,
                   ret, call, sessionvars, db>>

(* a call of calcular_alocacao(df_port): the column is added in place *)
Call_calcular_alocacao ==
    /\ op' = "calcular_alocacao"
    /\ df_port' = calcular_alocacao(df_port)
    /\ df_reb' = <<>>
    /\ totals' = <<>>
    /\ df_merge' = <<>>
    /\ aporte' = 0
    /\ simular' = FALSE
    /\ info' = ""
    /\ raised' = ""
    /\ UNCHANGED <<portfolio, asset_classes, storevars, sessionvars, db>>

(* a call of sugerir_rebalance(df_port.copy()) *)
Call_sugerir_rebalance ==
    /\ op' = "sugerir_rebalance"
    /\ df_reb' = sugerir_rebalance(df_port)
    /\ totals' = <<>>
    /\ df_merge' = <<>>
    /\ aporte' = 0
    /\ simular' = FALSE
    /\ info' = ""
    /\ raised' = ""
    /\ UNCHANGED <<portfolio, df_port, asset_classes, storevars, sessionvars, db>>

(* a call of simulate_rebalance_assets(df_port.copy(), aporte) *)
Call_simulate_rebalance_assets ==
    \E extra \in Aportes :
        LET r == simulate_rebalance_assets(df_port, extra)
        IN  /\ op' = "simulate_rebalance_assets"
            /\ aporte' = extra
            /\ df_reb' = r[1]
            /\ totals' = <<r[2], r[3]>>
            /\ df_merge' = <<>>
            /\ simular' = FALSE
            /\ info' = ""
            /\ raised' = ""
            /\ UNCHANGED <<portfolio, df_port, asset_classes, storevars, sessionvars, db>>

(* relatorios_avancados_page from the portfolio it read: nothing is       *)
(* computed on an empty portfolio                                          *)
relatorios_avancados_page ==
    /\ op' = "relatorios_avancados_page"
    /\ IF portfolio = <<>>
       THEN /\ info' = "Nenhum ativo para gerar relatorio."
            /\ df_port' = <<>>
            /\ df_reb' = <<>>
       ELSE /\ info' = ""
            /\ df_port' = calcular_alocacao(portfolio)
            /\ df_reb' = sugerir_rebalance(df_port')
    /\ totals' = <<>>
    /\ df_merge' = <<>>
    /\ aporte' = 0
    /\ simular' = FALSE
    /\ raised' = ""
    /\ UNCHANGED <<portfolio, asset_classes, storevars, sessionvars, db>>

(* simulacao_page from the portfolio it read: the per-asset simulation    *)
(* when the button is pressed, then the simulation by asset class         *)
simulacao_page ==
    /\ op' = "simulacao_page"
    /\ raised' = ""
    /\ IF portfolio = <<>>
       THEN /\ info' = "Nenhum ativo cadastrado para simulacao."
            /\ df_port' = <<>>
            /\ aporte' = 0
            /\ simular' = FALSE
            /\ df_reb' = <<>>
            /\ totals' = <<>>
            /\ df_merge' = <<>>
       ELSE \E extra \in Aportes, pressed \in BOOLEAN :
            /\ df_port' = portfolio
            /\ aporte' = extra
            /\ simular' = pressed
            /\ IF pressed
               THEN LET r == simulate_rebalance_assets(df_port', extra)
                    IN  /\ df_reb' = r[1]
                        /\ totals' = <<r[2], r[3]>>
               ELSE /\ df_reb' = <<>>
                    /\ totals' = <<>>
            /\ IF asset_classes # <<>>
               THEN /\ df_merge' = simulacao_classes(df_port', asset_classes)
                    /\ info' = ""
               ELSE /\ df_merge' = <<>>
                    /\ info' = "Nenhuma classe de ativo definida para simulacao."
    /\ UNCHANGED <<portfolio, asset_classes, storevars, sessionvars, db>>

---------------------------------------------------------------------------
(* Specifications *)

(* nothing stored, nobody logged in, no database file *)
TableNames == {"users", "portfolio", "asset_classes", "favorites", "user_logs"}

NoTable == [exists |-> FALSE, columns |-> {}, rows |-> {}]

StoreIdle ==
    /\ tbl_users = {}
    /\ tbl_portfolio = {}
    /\ tbl_asset_classes = {}
    /\ tbl_favorites = {}
    /\ user_logs = <<>>
    /\ sqlite_sequence = [t \in TableNames |-> 0]
    /\ pending = <<>>
    /\ fetched = <<>>
    /\ ret = "None"
    /\ call = <<>>

SessionIdle ==
    /\ logged_in = FALSE
    /\ session_username = ""
    /\ page = ""
    /\ sair = FALSE

DbIdle == db = [t \in TableNames |-> NoTable]

StartOutputs ==
    /\ df_port = portfolio
    /\ op = "start"
    /\ aporte = 0
    /\ simular = FALSE
    /\ df_reb = <<>>
    /\ totals = <<>>
    /\ df_merge = <<>>
    /\ info = ""
    /\ raised = ""

(* the calculation functions on every frame of holdings of one class *)
Init ==
    /\ portfolio \in Holdings({"RV"}, TargetPercents, CurrentValues)
    /\ asset_classes = <<>>
    /\ StartOutputs
    /\ StoreIdle /\ SessionIdle /\ DbIdle

Next ==
    \/ Call_calcular_alocacao
    \/ Call_sugerir_rebalance
    \/ Call_simulate_rebalance_assets
    \/ relatorios_avancados_page

Spec == Init /\ [][Next]_vars

(* simulacao_page on every portfolio of classified and unclassified       *)
(* holdings and every list of asset classes                               *)
InitSimulacao ==
    /\ portfolio \in Holdings(HoldingClasses, {0, 30}, {3})
    /\ asset_classes \in ClassRows
    /\ StartOutputs
    /\ StoreIdle /\ SessionIdle /\ DbIdle

NextSimulacao == simulacao_page

SpecSimulacao == InitSimulacao /\ [][NextSimulacao]_vars

---------------------------------------------------------------------------
(* Vocabulary of the properties *)

(* the rational r is the fraction n / d *)
IsFraction(r, n, d) == r.den > 0 /\ r.num * d = n * r.den

Total(df) == SumSeq(Column(df, "current_value"))

(* the summed current value of the holdings of one class *)
ClassTotal(df, name) ==
    SumSeq([i \in 1..Len(df) |->
               IF df[i].asset_class = name THEN df[i].current_value ELSE 0])

Negative(df) ==
    \E i \in 1..Len(df) : df[i].current_value < 0 \/ df[i].target_percent < 0

AllocationRan == op \in {"calcular_alocacao", "relatorios_avancados_page"}

---------------------------------------------------------------------------
(* C1: the per-asset rebalance computes total_new = sum(current_value) +   *)
(* extra contribution and, for each holding, ideal_value = target_percent  *)
(* / 100 * total_new and aporte_ideal = ideal_value - current_value; the   *)
(* holdings (70%, 3) and (30%, 7) with contribution 0 get the ideal values *)
(* 7 and 3 and the deltas 4 and -4.                                        *)
C1_Example ==
    /\ Len(df_port) = 2
    /\ df_port[1].target_percent = 70 /\ df_port[1].current_value = 3
    /\ df_port[2].target_percent = 30 /\ df_port[2].current_value = 7
    /\ aporte = 0

C1_PerAssetRebalance ==
    op = "simulate_rebalance_assets" =>
        /\ totals = <<Total(df_port), Total(df_port) + aporte>>
        /\ Len(df_reb) = Len(df_port)
        /\ \A i \in 1..Len(df_port) :
              /\ IsFraction(df_reb[i].ideal_value,
                            df_port[i].target_percent * totals[2], 100)
              /\ IsFraction(df_reb[i].aporte_ideal,
                            df_port[i].target_percent * totals[2]
                                - 100 * df_port[i].current_value, 100)
        /\ C1_Example =>
              /\ Column(df_reb, "ideal_value") = <<R(7), R(3)>>
              /\ Column(df_reb, "aporte_ideal") = <<R(4), R(-4)>>

C1_Witness ==
    /\ op = "simulate_rebalance_assets"
    /\ C1_Example
    /\ Column(df_reb, "aporte_ideal") = <<R(4), R(-4)>>

(* C2: with extra contribution 0 the per-asset rebalance gives, holding by *)
(* holding, the delta that sugerir_rebalance gives as diff, and            *)
(* sugerir_rebalance's target is target_percent / 100 * total_current and  *)
(* its diff is target - current_value.                                     *)
C2_ZeroContribution ==
    /\ (op = "simulate_rebalance_assets" /\ aporte = 0) =>
          Column(df_reb, "aporte_ideal")
              = Column(sugerir_rebalance(df_port), "diff")
    /\ op = "sugerir_rebalance" =>
          /\ Column(df_reb, "diff")
                = Column(simulate_rebalance_assets(df_port, 0)[1], "aporte_ideal")
          /\ \A i \in 1..Len(df_port) :
                /\ IsFraction(df_reb[i].valor_alvo,
                              df_port[i].target_percent * Total(df_port), 100)
                /\ IsFraction(df_reb[i].diff,
                              df_port[i].target_percent * Total(df_port)
                                  - 100 * df_port[i].current_value, 100)

C2_Witness ==
    /\ op = "simulate_rebalance_assets"
    /\ aporte = 0
    /\ Len(df_reb) = 2
    /\ df_reb[1].aporte_ideal # R(0)
    /\ df_reb[2].aporte_ideal # R(0)
    /\ df_reb[1].aporte_ideal # df_reb[2].aporte_ideal

(* C3: when the total current value is > 0, the allocation percentages of  *)
(* calcular_alocacao (current_value / total * 100 per holding) sum to 100. *)
C3_TotalInvariance ==
    (AllocationRan /\ Total(df_port) > 0) =>
        /\ \A i \in 1..Len(df_port) :
              IsFraction(df_port[i].aloc_atual_pct,
                         100 * df_port[i].current_value, Total(df_port))
        /\ SumRat(Column(df_port, "aloc_atual_pct")) = R(100)

C3_Witness ==
    /\ op = "calcular_alocacao"
    /\ Len(df_port) = 2
    /\ df_port[1].aloc_atual_pct = R(30)
    /\ df_port[2].aloc_atual_pct = R(70)

(* C4: when the total current value is 0 (the empty list included), the    *)
(* allocation calculator ends without an exception and reports allocation  *)
(* 0 for every holding, an empty result for the empty list; a division by  *)
(* zero never shows in the result.                                         *)
C4_ZeroTotal ==
    (AllocationRan /\ Total(df_port) = 0) =>
        /\ raised = ""
        /\ Len(df_port) = Len(portfolio)
        /\ \A i \in 1..Len(df_port) :
              /\ df_port[i].aloc_atual_pct # DivisionByZero
              /\ df_port[i].aloc_atual_pct = R(0)

C4_Witness ==
    /\ op = "calcular_alocacao"
    /\ Len(df_port) = 2
    /\ Total(df_port) = 0
    /\ df_port[1].aloc_atual_pct = R(0)

(* C5: a holding with a negative current_value or a negative               *)
(* target_percent makes the calculation (allocation, per-asset rebalance,  *)
(* reporting rebalance) end in a ValidationError and return no result row. *)
C5_ValidationError ==
    (/\ op \in {"calcular_alocacao", "sugerir_rebalance",
                "simulate_rebalance_assets"}
     /\ Negative(df_port)) =>
        /\ raised = "ValidationError"
        /\ df_reb = <<>>
        /\ \A i \in 1..Len(df_port) : "aloc_atual_pct" \notin DOMAIN df_port[i]

(* C6: in the class-grouped result every class name that appears in the   *)
(* holdings appears exactly once (with target 0 when no asset class of     *)
(* that name is defined), and every defined asset class without holdings   *)
(* appears with total current value 0.  Stated for the holdings that carry *)
(* a class name, in the runs that produced class rows.                     *)
C6_ClassCompleteness ==
    (op = "simulacao_page" /\ df_merge # <<>>) =>
        /\ \A h \in 1..Len(portfolio) :
              portfolio[h].asset_class \notin {NULL, ""} =>
                  Cardinality({i \in 1..Len(df_merge) :
                      df_merge[i].class_name = portfolio[h].asset_class}) = 1
        /\ \A c \in 1..Len(asset_classes) :
              ClassTotal(portfolio, asset_classes[c].class_name) = 0 =>
                  \E i \in 1..Len(df_merge) :
                      /\ df_merge[i].class_name = asset_classes[c].class_name
                      /\ df_merge[i].current_value = 0

LargerContribution ==
    /\ op = "simulacao_page" /\ op' = "simulacao_page"
    /\ simular /\ simular'
    /\ aporte < aporte'

HoldingsMonotone ==
    \A i \in 1..Len(portfolio) :
        /\ portfolio[i].target_percent > 0 =>
              /\ Less(df_reb[i].ideal_value, df_reb'[i].ideal_value)
              /\ Less(df_reb[i].aporte_ideal, df_reb'[i].aporte_ideal)
        /\ portfolio[i].target_percent = 0 =>
              /\ df_reb'[i].ideal_value = df_reb[i].ideal_value
              /\ df_reb'[i].aporte_ideal = df_reb[i].aporte_ideal

Unclassified == "unclassified"

C9_UnclassifiedGroup ==
    (/\ op = "simulacao_page"
     /\ df_merge # <<>>
     /\ \E h \in 1..Len(portfolio) : portfolio[h].asset_class \in {NULL, ""}) =>
        \E i \in 1..Len(df_merge) :
            /\ df_merge[i].class_name = Unclassified
            /\ df_merge[i].current_value
                  = ClassTotal(portfolio, NULL) + ClassTotal(portfolio, "")
            /\ \A j \in 1..Len(df_merge) :
                  df_merge[j].class_name = Unclassified => j = i

(* C10: a second call of calcular_alocacao, on the same snapshot or on the *)
(* frame the first call returned, yields the allocation percentages of the *)
(* first call: nothing carries over from one call to the next.             *)
C10_Idempotence ==
    [][(/\ AllocationRan
        /\ op' \in {"calcular_alocacao", "relatorios_avancados_page"})
       => Column(df_port', "aloc_atual_pct") = Column(df_port, "aloc_atual_pct")]_vars

C10_Witness ==
    /\ op = "calcular_alocacao"
    /\ Len(df_port) = 2
    /\ df_port[1].aloc_atual_pct = R(70)
    /\ df_port[2].aloc_atual_pct = R(30)

---------------------------------------------------------------------------
(* C16: the per-asset deltas of simulate_rebalance_assets sum to           *)
(* (sum of target_percent / 100) * total_new - total_current; when the     *)
(* target percentages sum to 100, the deltas sum to exactly the extra      *)
(* contribution.                                                           *)
PercentSum(df) == SumSeq(Column(df, "target_percent"))

DeltaSum == SumRat(Column(df_reb, "aporte_ideal"))

C16_DeltaSum ==
    op = "simulate_rebalance_assets" =>
        /\ IsFraction(DeltaSum,
                      PercentSum(df_port) * totals[2] - 100 * totals[1], 100)
        /\ PercentSum(df_port) = 100 => DeltaSum = R(aporte)

C16_Witness ==
    /\ op = "simulate_rebalance_assets"
    /\ Len(df_port) = 2
    /\ PercentSum(df_port) = 100
    /\ Total(df_port) = 10
    /\ aporte = 2
    /\ DeltaSum = R(2)

---------------------------------------------------------------------------
(* The database file and its schema (db.py, create_tables)                 *)

MaxDbRows == 1

calcframes == <<portfolio, df_port, asset_classes, aporte, simular, df_reb,
                totals, df_merge, info>>

UsersColumns == {"id", "username", "password_hash"}

PortfolioColumns ==
    {"id", "username", "asset_name", "asset_class", "target_percent", "current_value"}

AssetClassesColumns == {"id", "username", "class_name"}

FavoritesColumns == {"id", "username", "ticker", "company_name"}

UserLogsColumns == {"id", "username", "event_type", "details", "timestamp"}

(* CREATE TABLE IF NOT EXISTS t (cols) *)
create_table_if_not_exists(d, t, cols) ==
    IF d[t].exists THEN d
    ELSE [d EXCEPT ![t] = [exists |-> TRUE, columns |-> cols, rows |-> {}]]

(* ALTER TABLE t ADD COLUMN c ... on a table that exists: the rows stay *)
alter_table_add_column(d, t, c) ==
    [d EXCEPT ![t].columns = @ \cup {c}]

add_column_if_missing_never(d, t, c) == d

(* PRAGMA table_info(t); if c not in cols: ALTER TABLE t ADD COLUMN c *)
add_column_if_missing(d, t, c) ==
    IF c \notin d[t].columns THEN alter_table_add_column(d, t, c) ELSE d

(* db.py: the five CREATE TABLE IF NOT EXISTS, then the two column checks *)
initialize_db ==
    LET d1 == create_table_if_not_exists(db, "users", UsersColumns)
        d2 == create_table_if_not_exists(d1, "portfolio",
                                         PortfolioColumns \cup {"quantity"})
        d3 == create_table_if_not_exists(d2, "asset_classes",
                                         AssetClassesColumns \cup {"target_percent"})
        d4 == create_table_if_not_exists(d3, "favorites", FavoritesColumns)
        d5 == create_table_if_not_exists(d4, "user_logs", UserLogsColumns)
        d6 == add_column_if_missing(d5, "portfolio", "quantity")
        d7 == add_column_if_missing(d6, "asset_classes", "target_percent")
    IN  /\ db' = d7
        /\ op' = "initialize_db"
        /\ raised' = ""
        /\ UNCHANGED <<calcframes, storevars, sessionvars>>

(* investimentos.py: the schema the application creates at import *)
create_tables ==
    LET d1 == create_table_if_not_exists(db, "users", UsersColumns)
        d2 == create_table_if_not_exists(d1, "portfolio", PortfolioColumns)
        d3 == create_table_if_not_exists(d2, "asset_classes",
                                         AssetClassesColumns \cup {"target_value"})
        d4 == create_table_if_not_exists(d3, "favorites", FavoritesColumns)
        d5 == create_table_if_not_exists(d4, "user_logs", UserLogsColumns)
    IN  /\ db' = d5
        /\ op' = "create_tables"
        /\ raised' = ""
        /\ UNCHANGED <<calcframes, storevars, sessionvars>>

(* the ALTER of a table that does not exist ends in sqlite3.OperationalError *)
ensure_portfolio_table ==
    /\ op' = "ensure_portfolio_table"
    /\ IF "asset_class" \in db["portfolio"].columns
       THEN db' = db /\ raised' = ""
       ELSE IF db["portfolio"].exists
            THEN /\ db' = alter_table_add_column(db, "portfolio", "asset_class")
                 /\ raised' = ""
            ELSE db' = db /\ raised' = "OperationalError"
    /\ UNCHANGED <<calcframes, storevars, sessionvars>>

(* the database files initialize_db may find: no file or an empty one (no  *)
(* table), and tables of this or an older schema, with or without rows     *)
RowSets == SUBSET (1..MaxDbRows)

TableStates(columnSets) ==
    {NoTable} \cup
    {[exists |-> TRUE, columns |-> c, rows |-> r] : c \in columnSets, r \in RowSets}

DbFiles ==
    {[t \in TableNames |->
        CASE t = "users" -> u
          [] t = "portfolio" -> p
          [] t = "asset_classes" -> a
          [] t = "favorites" -> f
          [] OTHER -> l] :
        u \in TableStates({UsersColumns}),
        p \in TableStates({PortfolioColumns \ {"asset_class"},
                           PortfolioColumns,
                           PortfolioColumns \cup {"quantity"}}),
        a \in TableStates({AssetClassesColumns \cup {"target_value"},
                           AssetClassesColumns \cup {"target_percent"}}),
        f \in TableStates({FavoritesColumns}),
        l \in TableStates({UserLogsColumns})}

InitDb ==
    /\ db \in DbFiles
    /\ portfolio = <<>>
    /\ asset_classes = <<>>
    /\ StartOutputs
    /\ StoreIdle /\ SessionIdle

NextDb ==
    \/ initialize_db
    \/ create_tables
    \/ ensure_portfolio_table

SpecDb == InitDb /\ [][NextDb]_vars

(* C14: after initialize_db, from any prior database state, the five       *)
(* tables exist, portfolio has the column quantity and asset_classes the   *)
(* column target_percent; the rows and columns that existed are still      *)
(* there and no row is added; a second call changes nothing.               *)
SchemaReady(d) ==
    /\ \A t \in TableNames : d[t].exists
    /\ "quantity" \in d["portfolio"].columns
    /\ "target_percent" \in d["asset_classes"].columns

C14_InitializeDb ==
    [][op' = "initialize_db" =>
          /\ SchemaReady(db')
          /\ \A t \in TableNames :
                /\ db[t].columns \subseteq db'[t].columns
                /\ db'[t].rows = db[t].rows
          /\ (op = "initialize_db" \/ SchemaReady(db)) => db' = db]_vars

C14_Witness ==
    /\ op = "initialize_db"
    /\ db["portfolio"].rows # {}
    /\ db["asset_classes"].rows # {}
    /\ db["portfolio"].columns = PortfolioColumns \cup {"quantity"}
    /\ db["asset_classes"].columns
          = AssetClassesColumns \cup {"target_value", "target_percent"}
    /\ db["users"].rows = {}

---------------------------------------------------------------------------
(* Users and the session (create_user, verify_user, main)                  *)

MaxSessionLog == 2

Usernames == {"", "ana", "bob"}

Passwords == {"", "pw1", "pw2"}

Salts == {"s1", "s2"}

(* bcrypt.hashpw(password, salt): the hash carries its salt *)
hashpw(password, salt) == [salt |-> salt, digest |-> <<salt, password>>]

(* bcrypt.checkpw(password, hashed): hashes with the stored salt and compares *)
checkpw(password, hashed) == hashpw(password, hashed.salt) = hashed

(* INSERT INTO user_logs (username, event_type, details) *)
log_event(logs, username, event_type, details) ==
    Append(logs, [username |-> username, event_type |-> event_type,
                  details |-> details])

(* SELECT * FROM users WHERE username = ?; fetchone: <<row>> or <<>> (None) *)
get_user(users, username) ==
    IF \E r \in users : r.username = username
    THEN <<CHOOSE r \in users : r.username = username>>
    ELSE <<>>

username_taken_never(users, username) == FALSE

(* users.username TEXT UNIQUE: the INSERT raises sqlite3.IntegrityError *)
username_taken(users, username) == \E r \in users : r.username = username

verify_user_any_password(users, username, password) ==
    get_user(users, username) # <<>>

verify_user(users, username, password) ==
    LET user == get_user(users, username)
    IN  IF user # <<>> THEN checkpw(password, user[1].password_hash) ELSE FALSE

(* the store after create_user(username, password) with the salt gensalt   *)
(* drew: <<users, sqlite_sequence, user_logs, returned value>>             *)
create_user(username, password, salt) ==
    IF username_taken(tbl_users, username)
    THEN <<tbl_users, sqlite_sequence, user_logs, FALSE>>
    ELSE LET id == sqlite_sequence["users"] + 1
         IN  <<tbl_users \cup {[id |-> id, username |-> username,
                                password_hash |-> hashpw(password, salt)]},
               [sqlite_sequence EXCEPT !["users"] = id],
               log_event(user_logs, username, "Criação de usuário",
                         "Usuário criado com sucesso."),
               TRUE>>

Call_create_user ==
    \E username \in Usernames, password \in Passwords, salt \in Salts :
        LET r == create_user(username, password, salt)
        IN  /\ Len(r[3]) <= MaxSessionLog
            /\ tbl_users' = r[1]
            /\ sqlite_sequence' = r[2]
            /\ user_logs' = r[3]
            /\ ret' = r[4]
            /\ call' = <<"create_user", username, password>>
            /\ op' = "create_user"
            /\ raised' = ""
            /\ UNCHANGED <<calcframes, tbl_portfolio, tbl_asset_classes,
                           tbl_favorites, pending, fetched, sessionvars, db>>

Call_verify_user ==
    \E username \in Usernames, password \in Passwords :
        LET valid == verify_user(tbl_users, username, password)
        IN  /\ valid => Len(user_logs) < MaxSessionLog
            /\ user_logs' = IF valid
                            THEN log_event(user_logs, username, "Login",
                                           "Usuário logado com sucesso.")
                            ELSE user_logs
            /\ ret' = valid
            /\ call' = <<"verify_user", username, password>>
            /\ op' = "verify_user"
            /\ raised' = ""
            /\ UNCHANGED <<calcframes, tbl_users, tbl_portfolio, tbl_asset_classes,
                           tbl_favorites, sqlite_sequence, pending, fetched,
                           sessionvars, db>>

menu_options ==
    {"Dashboard", "Carteira", "Nova Ação", "Classes de Ativos", "Simulação",
     "Cotações", "Relatórios Avançados", "Histórico", "Notícias"}

(* the page function main calls for a menu option *)
page_of(menu_opcao) ==
    CASE menu_opcao = "Dashboard" -> "dashboard_page"
      [] menu_opcao = "Carteira" -> "carteira_page"
      [] menu_opcao = "Nova Ação" -> "nova_acao_page"
      [] menu_opcao = "Classes de Ativos" -> "classes_de_ativos_page"
      [] menu_opcao = "Simulação" -> "simulacao_page"
      [] menu_opcao = "Cotações" -> "cotacoes_page"
      [] menu_opcao = "Relatórios Avançados" -> "relatorios_avancados_page"
      [] menu_opcao = "Histórico" -> "historico_page"
      [] OTHER -> "noticias_page"

(* one run of main, not logged in, menu "Login" *)
main_login ==
    \E username \in Usernames, password \in Passwords, entrar \in BOOLEAN :
        LET valid == entrar /\ verify_user(tbl_users, username, password)
        IN  /\ ~logged_in
            /\ valid => Len(user_logs) < MaxSessionLog
            /\ user_logs' = IF valid
                            THEN log_event(user_logs, username, "Login",
                                           "Usuário logado com sucesso.")
                            ELSE user_logs
            /\ logged_in' = valid
            /\ session_username' = IF valid THEN username ELSE session_username
            /\ ret' = IF entrar THEN valid ELSE ret
            /\ call' = IF entrar THEN <<"verify_user", username, password>> ELSE <<>>
            /\ page' = ""
            /\ sair' = FALSE
            /\ op' = "main"
            /\ raised' = ""
            /\ UNCHANGED <<calcframes, tbl_users, tbl_portfolio, tbl_asset_classes,
                           tbl_favorites, sqlite_sequence, pending, fetched, db>>

(* one run of main, not logged in, menu "Criar Novo Usuário" *)
main_criar_usuario ==
    \E new_username \in Usernames, new_password \in Passwords,
       criar \in BOOLEAN, salt \in Salts :
        LET called == criar /\ new_username # "" /\ new_password # ""
            r == create_user(new_username, new_password, salt)
        IN  /\ ~logged_in
            /\ called => Len(r[3]) <= MaxSessionLog
            /\ tbl_users' = IF called THEN r[1] ELSE tbl_users
            /\ sqlite_sequence' = IF called THEN r[2] ELSE sqlite_sequence
            /\ user_logs' = IF called THEN r[3] ELSE user_logs
            /\ ret' = IF called THEN r[4] ELSE ret
            /\ call' = IF called THEN <<"create_user", new_username, new_password>>
                       ELSE <<>>
            /\ page' = ""
            /\ sair' = FALSE
            /\ op' = "main"
            /\ raised' = ""
            /\ UNCHANGED <<calcframes, tbl_portfolio, tbl_asset_classes,
                           tbl_favorites, pending, fetched, logged_in,
                           session_username, db>>

(* one run of main, logged in: the page of the chosen menu option runs,    *)
(* then the "Sair" button is looked at                                     *)
main_pagina ==
    \E menu_opcao \in menu_options, pressed \in BOOLEAN :
        /\ logged_in
        /\ page' = page_of(menu_opcao)
        /\ sair' = pressed
        /\ logged_in' = IF pressed THEN FALSE ELSE logged_in
        /\ call' = <<>>
        /\ op' = "main"
        /\ raised' = ""
        /\ UNCHANGED <<calcframes, tbl_users, tbl_portfolio, tbl_asset_classes,
                       tbl_favorites, user_logs, sqlite_sequence, pending,
                       fetched, ret, session_username, db>>

InitSession ==
    /\ portfolio = <<>>
    /\ asset_classes = <<>>
    /\ StartOutputs
    /\ StoreIdle /\ SessionIdle /\ DbIdle

NextSession ==
    \/ Call_create_user
    \/ Call_verify_user
    \/ main_login
    \/ main_criar_usuario
    \/ main_pagina

SpecSession == InitSession /\ [][NextSession]_vars

(* C18: create_user for a username that exists returns False and leaves    *)
(* the users and the log as they were; for a new username it returns True  *)
(* and adds exactly one user row and one log entry; no two user rows ever  *)
(* share a username.                                                       *)
HasUser(users, username) == \E r \in users : r.username = username

C18_CreateUser ==
    /\ [](\A r1 \in tbl_users, r2 \in tbl_users :
             r1.username = r2.username => r1 = r2)
    /\ [][(call' # <<>> /\ call'[1] = "create_user") =>
            IF HasUser(tbl_users, call'[2])
            THEN /\ ret' = FALSE
                 /\ tbl_users' = tbl_users
                 /\ user_logs' = user_logs
            ELSE /\ ret' = TRUE
                 /\ tbl_users \subseteq tbl_users'
                 /\ Cardinality(tbl_users') = Cardinality(tbl_users) + 1
                 /\ HasUser(tbl_users', call'[2])
                 /\ Len(user_logs') = Len(user_logs) + 1
                 /\ SubSeq(user_logs', 1, Len(user_logs)) = user_logs
                 /\ user_logs'[Len(user_logs')].username = call'[2]]_vars

C18_Witness ==
    /\ call # <<>> /\ call[1] = "create_user"
    /\ ret = FALSE
    /\ Cardinality(tbl_users) = 2
    /\ Len(user_logs) = 2


(* C19: a page function runs only in a run of main that found logged_in    *)
(* true; logged_in starts false and becomes true only in a step where      *)
(* verify_user returned true for a stored user and password, and the       *)
(* session username is then the verified one; "Sair" sets logged_in false, *)
(* so that no page runs until a new successful verification.               *)
Verified(username, password) ==
    \E r \in tbl_users :
        r.username = username /\ checkpw(password, r.password_hash)

C19_SessionGating ==
    /\ ~logged_in
    /\ [][/\ (op' = "main" /\ page' # "") => logged_in
          /\ (~logged_in /\ logged_in') =>
                /\ call' # <<>> /\ call'[1] = "verify_user"
                /\ ret' = TRUE
                /\ Verified(call'[2], call'[3])
                /\ session_username' = call'[2]
          /\ (op' = "main" /\ sair') => ~logged_in']_vars

C19_Witness ==
    /\ op = "main"
    /\ sair
    /\ page = "carteira_page"
    /\ ~logged_in
    /\ session_username = "ana"
    /\ Len(user_logs) = 2

---------------------------------------------------------------------------
(* The store: holdings, asset classes, favorites and the activity log      *)

MaxLog == 3

Users == {"ana", "bob"}

(* str.upper() on the tickers typed in *)
upper(s) ==
    CASE s = "petr4" -> "PETR4"
      [] s = "vale3" -> "VALE3"
      [] OTHER -> s

(* nova_acao_page: <<target_percent, current_value>> of the manual form    *)
(* (percent >= 0, value the fetched price or 0.0) and of a row of an       *)
(* uploaded sheet (percent 0.0, value float(row.iloc[2]))                  *)
FormInputs == {<<30, 0>>, <<30, 3>>}

SheetInputs == {<<0, -1>>, <<0, 3>>}

(* carteira_page: novo_percent and novo_valor, number inputs without bounds *)
EditInputs == {<<70, -1>>, <<70, 7>>}

(* fetch_stock_price: <<price>>, or <<>> for None *)
Prices == {<<>>, <<5>>}

(* ids the tables have given so far: own, foreign and deleted rows *)
Ids(t) == 1..sqlite_sequence[t]

(* SELECT * FROM ... WHERE username = ? *)
get_portfolio(username) == {r \in tbl_portfolio : r.username = username}

get_asset_classes(username) == {r \in tbl_asset_classes : r.username = username}

get_favorites(username) == {r \in tbl_favorites : r.username = username}

no_entry(username, event_type, details) == <<>>

(* the log_event call an operation makes once its change is committed *)
entry(username, event_type, details) ==
    <<[username |-> username, event_type |-> event_type, details |-> details]>>

(* what every mutating operation does around its statement *)
Operation(name, username, id) ==
    /\ pending = <<>>
    /\ Len(user_logs) < MaxLog
    /\ op' = name
    /\ call' = <<name, username, id>>
    /\ ret' = "None"
    /\ raised' = ""
    /\ UNCHANGED <<calcframes, tbl_users, user_logs, fetched, sessionvars, db>>

add_asset(username, asset_name, asset_class, target_percent, current_value) ==
    LET id == sqlite_sequence["portfolio"] + 1
    IN  /\ Operation("add_asset", username, id)
        /\ tbl_portfolio' = tbl_portfolio \cup
              {[id |-> id, username |-> username, asset_name |-> upper(asset_name),
                asset_class |-> asset_class, target_percent |-> target_percent,
                current_value |-> current_value]}
        /\ sqlite_sequence' = [sqlite_sequence EXCEPT !["portfolio"] = id]
        /\ pending' = entry(username, "Adição de ativo", upper(asset_name))
        /\ UNCHANGED <<tbl_asset_classes, tbl_favorites>>

(* UPDATE portfolio SET ... WHERE id = ? *)
update_asset(asset_id, asset_name, asset_class, target_percent, current_value, username) ==
    /\ Operation("update_asset", username, asset_id)
    /\ tbl_portfolio' =
          {IF r.id = asset_id
           THEN [r EXCEPT !.asset_name = upper(asset_name),
                          !.asset_class = asset_class,
                          !.target_percent = target_percent,
                          !.current_value = current_value]
           ELSE r : r \in tbl_portfolio}
    /\ pending' = entry(username, "Atualização de ativo", upper(asset_name))
    /\ UNCHANGED <<tbl_asset_classes, tbl_favorites, sqlite_sequence>>

(* DELETE FROM portfolio WHERE id = ? *)
delete_asset(asset_id, username, asset_name) ==
    /\ Operation("delete_asset", username, asset_id)
    /\ tbl_portfolio' = {r \in tbl_portfolio : r.id # asset_id}
    /\ pending' = entry(username, "Exclusão de ativo", asset_name)
    /\ UNCHANGED <<tbl_asset_classes, tbl_favorites, sqlite_sequence>>

add_asset_class(username, class_name, target_value) ==
    LET id == sqlite_sequence["asset_classes"] + 1
    IN  /\ Operation("add_asset_class", username, id)
        /\ tbl_asset_classes' = tbl_asset_classes \cup
              {[id |-> id, username |-> username, class_name |-> class_name,
                target_value |-> target_value]}
        /\ sqlite_sequence' = [sqlite_sequence EXCEPT !["asset_classes"] = id]
        /\ pending' = entry(username, "Adição de classe de ativo", class_name)
        /\ UNCHANGED <<tbl_portfolio, tbl_favorites>>

(* UPDATE asset_classes SET ... WHERE id = ? *)
update_asset_class(class_id, class_name, target_value, username) ==
    /\ Operation("update_asset_class", username, class_id)
    /\ tbl_asset_classes' =
          {IF r.id = class_id
           THEN [r EXCEPT !.class_name = class_name, !.target_value = target_value]
           ELSE r : r \in tbl_asset_classes}
    /\ pending' = entry(username, "Atualização de classe", class_name)
    /\ UNCHANGED <<tbl_portfolio, tbl_favorites, sqlite_sequence>>

(* DELETE FROM asset_classes WHERE id = ? *)
delete_asset_class(class_id, username, class_name) ==
    /\ Operation("delete_asset_class", username, class_id)
    /\ tbl_asset_classes' = {r \in tbl_asset_classes : r.id # class_id}
    /\ pending' = entry(username, "Exclusão de classe", class_name)
    /\ UNCHANGED <<tbl_portfolio, tbl_favorites, sqlite_sequence>>

add_favorite(username, ticker, company_name) ==
    LET id == sqlite_sequence["favorites"] + 1
    IN  /\ Operation("add_favorite", username, id)
        /\ tbl_favorites' = tbl_favorites \cup
              {[id |-> id, username |-> username, ticker |-> upper(ticker),
                company_name |-> company_name]}
        /\ sqlite_sequence' = [sqlite_sequence EXCEPT !["favorites"] = id]
        /\ pending' = entry(username, "Adição de favorito", upper(ticker))
        /\ UNCHANGED <<tbl_portfolio, tbl_asset_classes>>

(* DELETE FROM favorites WHERE id = ? *)
delete_favorite(fav_id, username, ticker) ==
    /\ Operation("delete_favorite", username, fav_id)
    /\ tbl_favorites' = {r \in tbl_favorites : r.id # fav_id}
    /\ pending' = entry(username, "Exclusão de favorito", ticker)
    /\ UNCHANGED <<tbl_portfolio, tbl_asset_classes, sqlite_sequence>>

(* the log_event call that ends a mutating operation *)
Call_log_event ==
    /\ pending # <<>>
    /\ user_logs' = log_event(user_logs, pending[1].username,
                              pending[1].event_type, pending[1].details)
    /\ pending' = <<>>
    /\ op' = "log_event"
    /\ UNCHANGED <<calcframes, raised, tbl_users, tbl_portfolio, tbl_asset_classes,
                   tbl_favorites, sqlite_sequence, fetched, ret, call,
                   sessionvars, db>>

price_update_always(row, price) ==
    [row EXCEPT !.current_value = IF price = <<>> THEN 0 ELSE price[1]]

(* if price is not None: UPDATE portfolio SET current_value = ? WHERE id = ? *)
price_update(row, price) ==
    IF price # <<>> THEN [row EXCEPT !.current_value = price[1]] ELSE row

(* the table after update_portfolio_prices(username) when fetch_stock_price *)
(* returned prices[id] for the holding id                                   *)
refreshed(tbl, username, prices) ==
    {IF r.username = username THEN price_update(r, prices[r.id]) ELSE r : r \in tbl}

update_portfolio_prices(username) ==
    \E prices \in [{r.id : r \in get_portfolio(username)} -> Prices] :
        /\ pending = <<>>
        /\ tbl_portfolio' = refreshed(tbl_portfolio, username, prices)
        /\ fetched' = prices
        /\ op' = "update_portfolio_prices"
        /\ call' = <<"update_portfolio_prices", username, 0>>
        /\ ret' = "None"
        /\ raised' = ""
        /\ UNCHANGED <<calcframes, tbl_users, tbl_asset_classes, tbl_favorites,
                       user_logs, sqlite_sequence, pending, sessionvars, db>>

InitStore ==
    /\ portfolio = <<>>
    /\ asset_classes = <<>>
    /\ StartOutputs
    /\ StoreIdle /\ SessionIdle /\ DbIdle

NextStore ==
    \/ \E u \in Users, tv \in FormInputs \cup SheetInputs :
          add_asset(u, "petr4", "RV", tv[1], tv[2])
    \/ \E u \in Users, id \in Ids("portfolio"), tv \in EditInputs :
          update_asset(id, "vale3", "RF", tv[1], tv[2], u)
    \/ \E u \in Users, id \in Ids("portfolio") : delete_asset(id, u, "PETR4")
    \/ \E u \in Users : add_asset_class(u, "RV", 5)
    \/ \E u \in Users, id \in Ids("asset_classes") : update_asset_class(id, "RF", 9, u)
    \/ \E u \in Users, id \in Ids("asset_classes") : delete_asset_class(id, u, "RV")
    \/ \E u \in Users : add_favorite(u, "petr4", "Petrobras")
    \/ \E u \in Users, id \in Ids("favorites") : delete_favorite(id, u, "PETR4")
    \/ \E u \in Users : update_portfolio_prices(u)
    \/ Call_log_event

SpecStore == InitStore /\ [][NextStore]_vars


(* C12: in every store that add_asset, an uploaded sheet, update_asset,    *)
(* update_portfolio_prices and delete_asset can produce, every holding has *)
(* current_value >= 0.                                                     *)
C12_NonNegativeValues ==
    \A r \in tbl_portfolio : r.current_value >= 0

(* C15: update_portfolio_prices changes only current_value, and only of    *)
(* the user's holdings: no row is added or removed, every other column and *)
(* every other user's row stays; a holding whose fetch returned None keeps *)
(* its value, one whose fetch returned a price holds that price.           *)
C15_PriceRefresh ==
    [][op' = "update_portfolio_prices" =>
          /\ {r.id : r \in tbl_portfolio'} = {r.id : r \in tbl_portfolio}
          /\ Cardinality(tbl_portfolio') = Cardinality(tbl_portfolio)
          /\ \A r \in tbl_portfolio : \E q \in tbl_portfolio' :
                /\ q.id = r.id
                /\ q.username = r.username
                /\ q.asset_name = r.asset_name
                /\ q.asset_class = r.asset_class
                /\ q.target_percent = r.target_percent
                /\ q.current_value =
                      IF r.username # call'[2] \/ fetched'[r.id] = <<>>
                      THEN r.current_value
                      ELSE fetched'[r.id][1]
          /\ UNCHANGED <<tbl_users, tbl_asset_classes, tbl_favorites, user_logs>>]_vars

C15_Witness ==
    /\ op = "update_portfolio_prices"
    /\ call[2] = "ana"
    /\ \E r \in tbl_portfolio :
          r.username = "ana" /\ fetched[r.id] = <<>> /\ r.current_value = 3
    /\ \E r \in tbl_portfolio :
          r.username = "ana" /\ fetched[r.id] = <<5>> /\ r.current_value = 5
    /\ \E r \in tbl_portfolio : r.username = "bob" /\ r.current_value = 3


(* C17: an operation made on behalf of user u (add_asset, update_asset,    *)
(* delete_asset, update_asset_class, delete_asset_class, delete_favorite,  *)
(* update_portfolio_prices) changes no holding, asset class or favorite of *)
(* another user, whatever id it is given; get_portfolio, get_asset_classes *)
(* and get_favorites of u return rows of u only.                           *)
OwnerOperations ==
    {"add_asset", "update_asset", "delete_asset", "update_asset_class",
     "delete_asset_class", "delete_favorite", "update_portfolio_prices"}

Others(tbl, username) == {r \in tbl : r.username # username}

C17_OwnerIsolation ==
    /\ [](\A u \in Users :
            \A r \in get_portfolio(u) \cup get_asset_classes(u) \cup get_favorites(u) :
                r.username = u)
    /\ [][op' \in OwnerOperations =>
            /\ Others(tbl_portfolio', call'[2]) = Others(tbl_portfolio, call'[2])
            /\ Others(tbl_asset_classes', call'[2])
                  = Others(tbl_asset_classes, call'[2])
            /\ Others(tbl_favorites', call'[2]) = Others(tbl_favorites, call'[2])]_vars

(* C20: a mutating operation (add_asset, update_asset, delete_asset,       *)
(* add_asset_class, update_asset_class, delete_asset_class, add_favorite,  *)
(* delete_favorite) appends exactly one user_logs entry, with the username *)
(* it was given, and writes it only once its change is committed; no       *)
(* operation removes or changes an entry: the log only grows.              *)
MutatingOperations ==
    {"add_asset", "update_asset", "delete_asset", "add_asset_class",
     "update_asset_class", "delete_asset_class", "add_favorite", "delete_favorite"}

datavars == <<tbl_portfolio, tbl_asset_classes, tbl_favorites>>

C20_LogAfterCommit ==
    /\ [](pending # <<>> => op \in MutatingOperations)
    /\ [][/\ Len(user_logs') >= Len(user_logs)
          /\ SubSeq(user_logs', 1, Len(user_logs)) = user_logs
          /\ op' \in MutatingOperations =>
                /\ pending = <<>>
                /\ user_logs' = user_logs
                /\ Len(pending') = 1
                /\ pending'[1].username = call'[2]
          /\ user_logs' # user_logs =>
                /\ op \in MutatingOperations
                /\ user_logs' = Append(user_logs, pending[1])
                /\ pending' = <<>>
                /\ UNCHANGED datavars]_vars

C20_Witness ==
    /\ op = "log_event"
    /\ call[1] = "delete_asset"
    /\ Len(user_logs) = 3
    /\ user_logs[3].username = call[2]
    /\ user_logs[3].event_type = "Exclusão de ativo"
    /\ user_logs[2].event_type = "Atualização de ativo"
    /\ tbl_portfolio = {}

---------------------------------------------------------------------------
(* Whole runs of simulacao_page and relatorios_avancados_page on the store *)

(* cur.fetchall(): the selected rows in id order *)
RECURSIVE fetchall(_)
fetchall(rows) ==
    IF rows = {} THEN <<>>
    ELSE LET first == CHOOSE r \in rows : \A q \in rows : r.id <= q.id
         IN  <<first>> \o fetchall(rows \ {first})

reassigned_kept(old, new) == old

(* portfolio = get_portfolio(username), a second time: the local variable  *)
(* holds the new list                                                      *)
reassigned(old, new) == new

(* the contributions typed into the page: none, and the largest *)
PageAportes == {0, MaxAporte}

simulacao_page_run(username) ==
    \E prices \in [{r.id : r \in get_portfolio(username)} -> Prices],
       extra \in PageAportes, pressed \in BOOLEAN :
        LET first_read == fetchall(get_portfolio(username))
            refreshed_tbl == refreshed(tbl_portfolio, username, prices)
            second_read == fetchall({r \in refreshed_tbl : r.username = username})
            classes == fetchall(get_asset_classes(username))
        IN  /\ op' = "simulacao_page"
            /\ call' = <<"simulacao_page", username, 0>>
            /\ raised' = ""
            /\ IF first_read = <<>>
               THEN /\ info' = "Nenhum ativo cadastrado para simulacao."
                    /\ extra = 0 /\ ~pressed
                    /\ portfolio' = first_read
                    /\ asset_classes' = asset_classes
                    /\ df_port' = <<>>
                    /\ aporte' = 0
                    /\ simular' = FALSE
                    /\ df_reb' = <<>>
                    /\ totals' = <<>>
                    /\ df_merge' = <<>>
                    /\ UNCHANGED <<tbl_portfolio, fetched>>
               ELSE /\ tbl_portfolio' = refreshed_tbl
                    /\ fetched' = prices
                    /\ portfolio' = reassigned(first_read, second_read)
                    /\ df_port' = portfolio'
                    /\ aporte' = extra
                    /\ simular' = pressed
                    /\ IF pressed
                       THEN LET r == simulate_rebalance_assets(df_port', extra)
                            IN  /\ df_reb' = r[1]
                                /\ totals' = <<r[2], r[3]>>
                       ELSE /\ df_reb' = <<>>
                            /\ totals' = <<>>
                    /\ asset_classes' = classes
                    /\ IF classes # <<>>
                       THEN /\ df_merge' = simulacao_classes(df_port', classes)
                            /\ info' = ""
                       ELSE /\ df_merge' = <<>>
                            /\ info' = "Nenhuma classe de ativo definida para simulacao."
            /\ UNCHANGED <<tbl_users, tbl_asset_classes, tbl_favorites, user_logs,
                           sqlite_sequence, pending, ret, sessionvars, db>>

relatorios_avancados_page_run(username) ==
    \E prices \in [{r.id : r \in get_portfolio(username)} -> Prices] :
        LET refreshed_tbl == refreshed(tbl_portfolio, username, prices)
            read == fetchall({r \in refreshed_tbl : r.username = username})
        IN  /\ op' = "relatorios_avancados_page"
            /\ call' = <<"relatorios_avancados_page", username, 0>>
            /\ raised' = ""
            /\ tbl_portfolio' = refreshed_tbl
            /\ fetched' = prices
            /\ portfolio' = read
            /\ IF read = <<>>
               THEN /\ info' = "Nenhum ativo para gerar relatorio."
                    /\ df_port' = <<>>
                    /\ df_reb' = <<>>
               ELSE /\ info' = ""
                    /\ df_port' = calcular_alocacao(read)
                    /\ df_reb' = sugerir_rebalance(df_port')
            /\ totals' = <<>>
            /\ df_merge' = <<>>
            /\ aporte' = 0
            /\ simular' = FALSE
            /\ UNCHANGED <<asset_classes, tbl_users, tbl_asset_classes, tbl_favorites,
                           user_logs, sqlite_sequence, pending, ret, sessionvars, db>>

(* the stores the pages run on: up to MaxHoldings holdings and at most one *)
(* asset class, of two users, with the log entries of their additions      *)
StoredHoldings ==
    UNION {[1..n -> [username : Users, target_percent : {30},
                     current_value : {3}]] : n \in 0..MaxHoldings}

StoredClasses == {{}, {[id |-> 1, username |-> "ana", class_name |-> "RV",
                        target_value |-> 5]}}

InitPages ==
    /\ \E h \in StoredHoldings :
          /\ tbl_portfolio =
                {[id |-> i, username |-> h[i].username, asset_name |-> "PETR4",
                  asset_class |-> "RV", target_percent |-> h[i].target_percent,
                  current_value |-> h[i].current_value] : i \in 1..Len(h)}
          /\ tbl_asset_classes \in StoredClasses
          /\ sqlite_sequence =
                [t \in TableNames |->
                    CASE t = "portfolio" -> Len(h)
                      [] t = "asset_classes" -> Cardinality(tbl_asset_classes)
                      [] t = "user_logs" -> Len(h) + Cardinality(tbl_asset_classes)
                      [] OTHER -> 0]
          /\ user_logs =
                [i \in 1..Len(h) |->
                    [username |-> h[i].username, event_type |-> "Adição de ativo",
                     details |-> "PETR4"]]
                \o [i \in 1..Cardinality(tbl_asset_classes) |->
                      [username |-> "ana", event_type |-> "Adição de classe de ativo",
                       details |-> "RV"]]
    /\ tbl_users = {}
    /\ tbl_favorites = {}
    /\ pending = <<>>
    /\ fetched = <<>>
    /\ ret = "None"
    /\ call = <<>>
    /\ portfolio = <<>>
    /\ asset_classes = <<>>
    /\ StartOutputs
    /\ SessionIdle /\ DbIdle

NextPages ==
    \/ \E u \in Users : simulacao_page_run(u)
    \/ \E u \in Users : relatorios_avancados_page_run(u)
    \/ Call_calcular_alocacao
    \/ Call_sugerir_rebalance
    \/ Call_simulate_rebalance_assets

SpecPages == InitPages /\ [][NextPages]_vars


(* C11: calcular_alocacao, sugerir_rebalance and simulate_rebalance_assets *)
(* leave the persisted store as it was: no row of portfolio,               *)
(* asset_classes, users, favorites or user_logs is added, changed or       *)
(* removed by a call.                                                      *)
CalculationFunctions ==
    {"calcular_alocacao", "sugerir_rebalance", "simulate_rebalance_assets"}

C11_StoreUntouched ==
    [][op' \in CalculationFunctions =>
          UNCHANGED <<tbl_portfolio, tbl_asset_classes, tbl_users, tbl_favorites,
                      user_logs>>]_vars

C11_Witness ==
    /\ op \in CalculationFunctions
    /\ df_reb # <<>>
    /\ Cardinality(tbl_portfolio) = 2
    /\ tbl_asset_classes # {}
    /\ \E r \in tbl_portfolio : r.current_value = 5
    /\ Len(user_logs) = 3

(* C13: simulacao_page and relatorios_avancados_page compute on the        *)
(* holdings they read after the price refresh of the same run: the frame   *)
(* they work on holds, for each holding of the user, the value the store   *)
(* has after that refresh (the fetched price, or the stored value when the *)
(* fetch failed), and the results are computed from that frame.            *)
PageRuns == {"simulacao_page", "relatorios_avancados_page"}

BaseColumns(df) ==
    [i \in 1..Len(df) |->
        [id |-> df[i].id, username |-> df[i].username,
         asset_name |-> df[i].asset_name, asset_class |-> df[i].asset_class,
         target_percent |-> df[i].target_percent,
         current_value |-> df[i].current_value]]

C13_ReadAfterRefresh ==
    [][op' \in PageRuns =>
          LET username == call'[2]
              stored == fetchall({r \in tbl_portfolio' : r.username = username})
          IN  /\ tbl_portfolio' = refreshed(tbl_portfolio, username, fetched')
                 \/ (get_portfolio(username) = {} /\ tbl_portfolio' = tbl_portfolio)
              /\ portfolio' = stored
              /\ BaseColumns(df_port') = stored
              /\ \A i \in 1..Len(df_port') :
                    df_port'[i].current_value =
                        IF fetched'[df_port'[i].id] = <<>>
                        THEN (CHOOSE r \in tbl_portfolio :
                                 r.id = df_port'[i].id).current_value
                        ELSE fetched'[df_port'[i].id][1]
              /\ (op' = "simulacao_page" /\ simular') =>
                    /\ totals'[1] = SumSeq(Column(stored, "current_value"))
                    /\ df_reb' = simulate_rebalance_assets(stored, aporte')[1]
              /\ (op' = "relatorios_avancados_page" /\ stored # <<>>) =>
                    /\ df_port' = calcular_alocacao(stored)
                    /\ df_reb' = sugerir_rebalance(calcular_alocacao(stored))]_vars

C13_Witness ==
    /\ op = "simulacao_page"
    /\ simular
    /\ call[2] = "ana"
    /\ Len(df_port) = 2
    /\ fetched[df_port[1].id] = <<5>>
    /\ fetched[df_port[2].id] = <<>>
    /\ Column(df_port, "current_value") = <<5, 3>>
    /\ totals[1] = 8

===========================================================================
